---- MODULE Spec2Model ----
(***************************************************************************)
(* Model of reag/client.py (ReagClient) and reag/memory.py (Memory): the   *)
(* metadata filter, the batched non-streaming query and the conversation   *)
(* memory.                                                                 *)
(*                                                                         *)
(* Python values are tagged: a metadata or filter value is a string (a     *)
(* sequence of character codes) or an integer, so that str/int comparisons *)
(* behave as in Python (== is False, < raises TypeError).                  *)
(***************************************************************************)
EXTENDS Integers, Sequences, FiniteSets, TLC

VARIABLES
    model,               \* self.model
    batch_size,          \* self.batch_size
    memory,              \* self.memory.history
    pc,                  \* position of the query coroutine
    prompt,              \* argument of query
    documents,           \* argument of query
    options,             \* argument of query
    filtered_documents,  \* local of _batch_query
    batches,             \* local of _batch_query
    k,                   \* index of the current batch (1-based)
    tasks,               \* requests of the current batch, in creation order
    inflight,            \* requests started by gather and not yet completed
    batch_responses,     \* responses of the current batch, by task position
    j,                   \* position of the response loop in the batch
    results,             \* local of _batch_query
    ret,                 \* what the caller of query receives
    issued,              \* log: every completion request created by the query
    processed,           \* log: every response the response loop has taken up
    mem0,                \* memory.history when the query was called
    reordered,           \* log: a request of the batch completed before an earlier one
    answered,            \* log: the request each response of the batch answers
    response_stream,     \* log: the chunks the completion stream has delivered
    full_response,       \* local of _streaming_query
    yielded              \* what the consumer of the stream has received

vars == <<model, batch_size, memory, pc, prompt, documents, options,
          filtered_documents, batches, k, tasks, inflight, batch_responses,
          j, results, ret, issued, processed, mem0, reordered,
          answered, response_stream,
          full_response, yielded>>

\* The state of a streaming query.
stream_vars == <<response_stream, full_response, yielded>>

----------------------------------------------------------------------------
(* Bounds of the model.                                                    *)

MaxDocs == 3        \* longest document list passed to query
MaxBatch == 2       \* largest batch_size a client is constructed with
MaxHistory == 2     \* a query is started only while the history is this short
MaxFilterDocs == 2  \* longest document list given to the filter alone
MaxFilters == 2     \* longest filter list given to the filter alone

----------------------------------------------------------------------------
(* Python values.                                                          *)

PyStr(s) == [t |-> "str", s |-> s, n |-> 0]
PyInt(n) == [t |-> "int", s |-> <<>>, n |-> n]

\* Character codes: "a" = 1, "b" = 2; "." = 0 is the regex wildcard.
Dot == 0

PyEq(a, b) == a.t = b.t /\ a.s = b.s /\ a.n = b.n

IsPrefix(p, s) == Len(p) <= Len(s) /\ SubSeq(s, 1, Len(p)) = p

IsSuffix(p, s) == Len(p) <= Len(s) /\ SubSeq(s, Len(s) - Len(p) + 1, Len(s)) = p

IsSubstring(p, s) ==
    \E i \in 0..(Len(s) - Len(p)) : SubSeq(s, i + 1, i + Len(p)) = p

RECURSIVE LexLess(_, _)
LexLess(a, b) ==
    IF b = <<>> THEN FALSE
    ELSE IF a = <<>> THEN TRUE
    ELSE IF Head(a) < Head(b) THEN TRUE
    ELSE IF Head(a) > Head(b) THEN FALSE
    ELSE LexLess(Tail(a), Tail(b))

\* re.match(p, s) for patterns of literal characters and ".": anchored at the
\* start of s, free at its end.
RECURSIVE RegexMatch(_, _)
RegexMatch(p, s) ==
    IF p = <<>> THEN TRUE
    ELSE IF s = <<>> THEN FALSE
    ELSE (Head(p) = Dot \/ Head(p) = Head(s)) /\ RegexMatch(Tail(p), Tail(s))

\* val < other in Python: "TypeError" between str and int.
PyLess(a, b) ==
    IF a.t # b.t THEN "TypeError"
    ELSE IF a.t = "str" THEN (IF LexLess(a.s, b.s) THEN "True" ELSE "False")
    ELSE (IF a.n < b.n THEN "True" ELSE "False")

PyLessEq(a, b) ==
    IF a.t # b.t THEN "TypeError"
    ELSE IF PyEq(a, b) THEN "True"
    ELSE PyLess(a, b)

Bool(b) == IF b THEN "True" ELSE "False"

----------------------------------------------------------------------------
(* Documents and filters.                                                  *)

Keys == {"id", "version"}

NoMetadata == [key \in {} |-> PyStr(<<>>)]

\* Document: metadata is None (is_none) or a mapping of some keys to values.
Doc(name, none, metadata) ==
    [name |-> name, is_none |-> none, metadata |-> metadata]

DocA == Doc("A", FALSE, [key \in {"id", "version"} |->
                            IF key = "id" THEN PyStr(<<1>>) ELSE PyInt(1)])
DocB == Doc("B", FALSE, [key \in {"id", "version"} |->
                            IF key = "id" THEN PyStr(<<2>>) ELSE PyInt(2)])
DocC == Doc("C", FALSE, [key \in {"version"} |-> PyStr(<<1, 2, 1>>)])
DocD == Doc("D", FALSE, [key \in {"version"} |-> PyStr(<<2, 1, 2>>)])
DocE == Doc("E", FALSE, [key \in {"id"} |-> PyStr(<<1, 2>>)])
DocN == Doc("N", TRUE, NoMetadata)

\* The documents the filter is applied to: version is an integer below or
\* equal to the filter's, a string that starts with, ends with or holds the
\* filter's, or is missing.
FilterCorpus == {DocA, DocB, DocC, DocD, DocE, DocN}

Operators == {"equals", "notEquals", "contains", "startsWith", "endsWith",
              "regex", "greaterThan", "lessThan", "greaterThanOrEqual",
              "lessThanOrEqual"}

\* operator is Optional[str]: "None" stands for an absent operator, "like" for
\* a string that names no operator.
MetadataFilter(key, value, operator) ==
    [key |-> key, value |-> value, operator |-> operator]

FilterValues == {PyStr(<<1, 2>>), PyInt(2)}

\* Every operator with a string and with an integer value, an absent operator
\* and an unknown one.
FilterPool ==
    {MetadataFilter("version", v, op) : v \in FilterValues, op \in Operators}
    \cup {MetadataFilter("version", PyInt(2), "None"),
          MetadataFilter("version", PyStr(<<1, 2>>), "like")}

\* Outcomes of passes_filter: it returns True or False, or raises TypeError.
passes_filter(doc, f) ==
    IF doc.is_none \/ DOMAIN doc.metadata = {} \/ f.key \notin DOMAIN doc.metadata
    THEN "False"
    ELSE LET val == doc.metadata[f.key]
             op == IF f.operator = "None" THEN "equals" ELSE f.operator
         IN CASE op = "equals" -> Bool(PyEq(val, f.value))
              [] op = "notEquals" -> Bool(~PyEq(val, f.value))
              [] op = "contains" ->
                    IF val.t # "str" THEN "False"
                    ELSE IF f.value.t # "str" THEN "TypeError"
                    ELSE Bool(IsSubstring(f.value.s, val.s))
              [] op = "startsWith" ->
                    IF val.t # "str" THEN "False"
                    ELSE IF f.value.t # "str" THEN "TypeError"
                    ELSE Bool(IsPrefix(f.value.s, val.s))
              [] op = "endsWith" ->
                    IF val.t # "str" THEN "False"
                    ELSE IF f.value.t # "str" THEN "TypeError"
                    ELSE Bool(IsSuffix(f.value.s, val.s))
              [] op = "regex" ->
                    IF val.t # "str" THEN "False"
                    ELSE IF f.value.t # "str" THEN "TypeError"
                    ELSE Bool(RegexMatch(f.value.s, val.s))
              [] op = "greaterThan" -> PyLess(f.value, val)
              [] op = "lessThan" -> PyLess(val, f.value)
              [] op = "greaterThanOrEqual" -> PyLessEq(f.value, val)
              [] op = "lessThanOrEqual" -> PyLessEq(val, f.value)
              [] OTHER -> "False"

\* all(passes_filter(doc, f) for f in filters): stops at the first False, and
\* an exception of passes_filter escapes it.
RECURSIVE all_pass(_, _)
all_pass(doc, filters) ==
    IF filters = <<>> THEN "True"
    ELSE LET r == passes_filter(doc, Head(filters))
         IN IF r = "True" THEN all_pass(doc, Tail(filters)) ELSE r

Returned(docs) == [raised |-> "None", docs |-> docs]
Raised(exc) == [raised |-> exc, docs |-> <<>>]

\* The list comprehension: documents are visited in order; the first exception
\* ends it and nothing is returned.
RECURSIVE comprehension(_, _)
comprehension(docs, filters) ==
    IF docs = <<>> THEN Returned(<<>>)
    ELSE LET r == all_pass(Head(docs), filters)
         IN IF r = "TypeError" THEN Raised("TypeError")
            ELSE LET rest == comprehension(Tail(docs), filters)
                 IN IF rest.raised # "None" THEN rest
                    ELSE IF r = "True"
                         THEN Returned(<<Head(docs)>> \o rest.docs)
                         ELSE rest

\* filters is a list of MetadataFilter or "None"; `not filters` holds of None
\* and of the empty list.
NoFilters == <<>>

filter_documents_by_metadata(docs, filters) ==
    IF filters = NoFilters THEN Returned(docs)
    ELSE comprehension(docs, filters)

----------------------------------------------------------------------------
(* Options of query.                                                       *)

\* options is None or has no "filter" key (shape "absent"), or options["filter"]
\* is a list of filters, one dict, or one MetadataFilter object.
Options(shape, value) == [filter |-> shape, value |-> value]

NoOptions == Options("absent", <<>>)

\* Lines 154-163: the filters handed to _filter_documents_by_metadata. A value
\* that is neither a list nor a dict leaves filters at None.
convert_filters(opts) ==
    CASE opts.filter = "list" -> opts.value
      [] opts.filter = "dict" -> <<opts.value[1]>>
      [] OTHER -> NoFilters

----------------------------------------------------------------------------
(* Memory.                                                                 *)

UserMessage(content) == [role |-> "user", content |-> content]
AssistantMessage(content) == [role |-> "assistant", content |-> content]
\* The system message embeds format_doc(document).
SystemMessage(doc) == [role |-> "system", source |-> doc]

add_message(history, message) == Append(history, message)

get_history(history) == history

clear == <<>>

----------------------------------------------------------------------------
(* Responses of the completion backend.                                    *)

Absent == "<absent>"

\* A response body is well-formed JSON (kind "json": an object that may hold a
\* source object, which may hold is_irrelevant, content and reasoning) or free
\* text (kind "text": it may hold a <think> block, given as reasoning, an
\* **isIrrelevant:** marker and an **Answer:** marker, given as content).
Response(kind, source, irr, content, reasoning) ==
    [kind |-> kind, source |-> source, is_irrelevant |-> irr,
     content |-> content, reasoning |-> reasoning]

NoResponse == Response("none", FALSE, Absent, Absent, Absent)

JsonNoSource == Response("json", FALSE, Absent, Absent, Absent)
JsonEmptySource == Response("json", TRUE, Absent, Absent, Absent)
JsonIrrelevant == Response("json", TRUE, "true", "", "r")
JsonRelevant == Response("json", TRUE, "false", "a", "r")
JsonBareRelevant == Response("json", TRUE, "false", Absent, Absent)
TextRelevant == Response("text", FALSE, "false", "b", "t")
TextIrrelevant == Response("text", FALSE, "true", "b", "t")

\* The bodies a backend answers with. The JSON parser takes every text for
\* malformed and the text parser finds no marker in any JSON body, so each
\* model gets one body of the other style.
Responses(m) ==
    IF m = "gpt-4o-mini"
    THEN {JsonNoSource, JsonEmptySource, JsonIrrelevant, JsonRelevant,
          JsonBareRelevant, TextRelevant}
    ELSE {TextRelevant, TextIrrelevant, JsonRelevant}

QueryResult(content, reasoning, is_irrelevant, document) ==
    [content |-> content, reasoning |-> reasoning,
     is_irrelevant |-> is_irrelevant, document |-> document]

\* _extract_think_content: the three regular expressions find nothing in a
\* text without the tags and markers, a JSON body included.
extract_think_content(r) ==
    [reasoning |-> IF r.kind = "text" /\ r.reasoning # Absent
                   THEN r.reasoning ELSE "",
     is_irrelevant |-> IF r.kind = "text" /\ r.is_irrelevant # Absent
                       THEN r.is_irrelevant = "true" ELSE TRUE,
     content |-> IF r.kind = "text" /\ r.content # Absent
                 THEN r.content ELSE ""]

Models == {"gpt-4o-mini", "ollama/deepseek-r1"}

\* self.model.startswith("ollama/")
IsOllama(m) == m = "ollama/deepseek-r1"

\* What one pass of the response loop does: the results it appends, the
\* messages it adds to Memory, and the exception that leaves the loop
\* ("None": none; json.JSONDecodeError is caught inside the loop).
Step(raised, appended, messages) ==
    [raised |-> raised, results |-> appended, messages |-> messages]

\* Lines 202-212.
process_think(document, r, p) ==
    LET x == extract_think_content(r)
    IN Step("None",
            <<QueryResult(x.content, x.reasoning, x.is_irrelevant, document)>>,
            <<UserMessage(p), AssistantMessage(x.content)>>)

\* Mutant of process_json: the exchange is recorded before the relevance test.
process_json_remember_first(document, r, p) ==
    IF r.kind # "json" THEN Step("None", <<>>, <<>>)
    ELSE IF ~r.source THEN Step("KeyError", <<>>, <<>>)
    ELSE LET content == IF r.content = Absent THEN "" ELSE r.content
             reasoning == IF r.reasoning = Absent THEN "" ELSE r.reasoning
         IN IF r.is_irrelevant # "false"
            THEN Step("None", <<>>, <<UserMessage(p), AssistantMessage(content)>>)
            ELSE Step("None",
                      <<QueryResult(content, reasoning, FALSE, document)>>,
                      <<UserMessage(p), AssistantMessage(content)>>)

\* Mutant of process_json: no except clause for json.JSONDecodeError.
process_json_no_except(document, r, p) ==
    IF r.kind # "json" THEN Step("JSONDecodeError", <<>>, <<>>)
    ELSE IF ~r.source THEN Step("KeyError", <<>>, <<>>)
    ELSE IF r.is_irrelevant # "false" THEN Step("None", <<>>, <<>>)
    ELSE LET content == IF r.content = Absent THEN "" ELSE r.content
             reasoning == IF r.reasoning = Absent THEN "" ELSE r.reasoning
         IN Step("None",
                 <<QueryResult(content, reasoning, FALSE, document)>>,
                 <<UserMessage(p), AssistantMessage(content)>>)

\* Lines 215-235; line 236 catches the JSONDecodeError of json.loads.
process_json(document, r, p) ==
    IF r.kind # "json" THEN Step("None", <<>>, <<>>)
    ELSE IF ~r.source THEN Step("KeyError", <<>>, <<>>)
    ELSE IF r.is_irrelevant # "false" THEN Step("None", <<>>, <<>>)
    ELSE LET content == IF r.content = Absent THEN "" ELSE r.content
             reasoning == IF r.reasoning = Absent THEN "" ELSE r.reasoning
         IN Step("None",
                 <<QueryResult(content, reasoning, FALSE, document)>>,
                 <<UserMessage(p), AssistantMessage(content)>>)

\* Lines 197-238: the body of the response loop.
process_response(m, document, r, p) ==
    IF IsOllama(m) THEN process_think(document, r, p)
    ELSE process_json(document, r, p)

----------------------------------------------------------------------------
(* The batcher.                                                            *)

Min(a, b) == IF a < b THEN a ELSE b

Max(a, b) == IF a > b THEN a ELSE b

\* Mutant of make_batches: each slice starts one document early.
make_batches_overlapping(docs, size) ==
    [b \in 1..((Len(docs) + size - 1) \div size) |->
        SubSeq(docs, Max(1, (b - 1) * size), Min(b * size, Len(docs)))]

\* Mutant of make_batches: range(0, len - size + 1, size) loses a short last
\* batch.
make_batches_full_only(docs, size) ==
    [b \in 1..(Len(docs) \div size) |->
        SubSeq(docs, (b - 1) * size + 1, b * size)]

\* Lines 171-174: filtered_documents[i : i + batch_size] for i in
\* range(0, len(filtered_documents), batch_size).
make_batches(docs, size) ==
    [b \in 1..((Len(docs) + size - 1) \div size) |->
        SubSeq(docs, (b - 1) * size + 1, Min(b * size, Len(docs)))]

\* Index in filtered_documents of position i of batch b.
Offset(b) == (b - 1) * batch_size

\* Mutant of Request: every request carries the history of the start of the
\* query, read once before the loop over the batches.
Request_with_initial_history(b, document, history, p) ==
    [batch |-> b, document |-> document,
     messages |-> <<SystemMessage(document)>> \o mem0 \o <<UserMessage(p)>>]

\* Lines 181-191: the request for one document.
Request(b, document, history, p) ==
    [batch |-> b, document |-> document,
     messages |-> <<SystemMessage(document)>> \o get_history(history)
                  \o <<UserMessage(p)>>]

----------------------------------------------------------------------------
(* The non-streaming query.                                                *)

SeqsUpTo(S, n) == UNION {[1..m -> S] : m \in 0..n}

NoResult == [kind |-> "pending", value |-> <<>>, error |-> "None"]
ReturnList(l) == [kind |-> "list", value |-> l, error |-> "None"]
\* Line 243: raise Exception(f"Query failed: {str(e)}").
QueryFailed(cause) == [kind |-> "raise", value |-> <<>>, error |-> cause]

QueryCorpus == {DocA, DocB}

IdEqualsA == MetadataFilter("id", PyStr(<<1>>), "equals")
VersionAtLeast2 == MetadataFilter("version", PyInt(2), "greaterThanOrEqual")
VersionBelowText == MetadataFilter("version", PyStr(<<1, 2>>), "lessThan")

OptionsMenu ==
    {NoOptions,
     Options("list", <<IdEqualsA>>),
     Options("list", <<VersionBelowText>>),
     Options("dict", <<VersionAtLeast2>>),
     Options("object", <<VersionAtLeast2>>)}

Prompt == "p"

Init ==
    /\ model \in Models
    /\ batch_size \in 1..MaxBatch
    /\ memory = <<>>
    /\ pc = "idle"
    /\ prompt = ""
    /\ documents = <<>>
    /\ options = NoOptions
    /\ filtered_documents = <<>>
    /\ batches = <<>>
    /\ k = 0
    /\ tasks = <<>>
    /\ inflight = {}
    /\ batch_responses = <<>>
    /\ j = 0
    /\ results = <<>>
    /\ ret = NoResult
    /\ issued = <<>>
    /\ processed = <<>>
    /\ mem0 = <<>>
    /\ reordered = FALSE
    /\ answered = <<>>
    /\ response_stream = <<>>
    /\ full_response = <<>>
    /\ yielded = <<>>

\* Lines 148-176: query(prompt, documents, options, stream=False) up to the
\* loop over the batches.
Query(p, docs, opts) ==
    /\ pc = "idle"
    /\ Len(memory) <= MaxHistory
    /\ prompt' = p
    /\ documents' = docs
    /\ options' = opts
    /\ mem0' = memory
    /\ LET out == filter_documents_by_metadata(docs, convert_filters(opts))
       IN IF out.raised # "None"
          THEN /\ pc' = "failed"
               /\ ret' = QueryFailed(out.raised)
               /\ filtered_documents' = <<>>
               /\ batches' = <<>>
               /\ k' = 0
          ELSE /\ filtered_documents' = out.docs
               /\ batches' = make_batches(out.docs, batch_size)
               /\ IF batches' = <<>>
                  THEN pc' = "returned" /\ ret' = ReturnList(<<>>) /\ k' = 0
                  ELSE pc' = "issue" /\ ret' = NoResult /\ k' = 1
    /\ tasks' = <<>>
    /\ inflight' = {}
    /\ batch_responses' = <<>>
    /\ j' = 0
    /\ results' = <<>>
    /\ issued' = <<>>
    /\ processed' = <<>>
    /\ reordered' = FALSE
    /\ answered' = <<>>
    /\ UNCHANGED stream_vars
    /\ UNCHANGED <<model, batch_size, memory>>

\* Lines 178-194: the requests of batch k are created, each with the history
\* of that moment, and asyncio.gather starts them all.
IssueBatch ==
    /\ pc = "issue"
    /\ tasks' = [i \in 1..Len(batches[k]) |->
                    Request(k, batches[k][i], memory, prompt)]
    /\ issued' = issued \o tasks'
    /\ inflight' = inflight \cup {Offset(k) + i : i \in 1..Len(batches[k])}
    /\ batch_responses' = [i \in 1..Len(batches[k]) |-> NoResponse]
    /\ pc' = "gather"
    /\ reordered' = FALSE
    /\ answered' = [i \in 1..Len(batches[k]) |-> 0]
    /\ UNCHANGED stream_vars
    /\ UNCHANGED <<model, batch_size, memory, prompt, documents, options,
                   filtered_documents, batches, k, j, results, ret,
                   processed, mem0>>

\* Mutant of store_response: the responses are kept in the order in which the
\* requests complete (asyncio.as_completed).
store_response_as_completed(responses, i, r) ==
    [responses EXCEPT ![Len(tasks) - Cardinality(inflight) + 1] = r]

\* Line 194: gather returns the responses in the order of the tasks, whatever
\* the order in which they complete.
store_response(responses, i, r) == [responses EXCEPT ![i] = r]

\* A request of the batch completes with a response.
Complete(i, r) ==
    /\ pc = "gather"
    /\ Offset(k) + i \in inflight
    /\ inflight' = inflight \ {Offset(k) + i}
    /\ batch_responses' = store_response(batch_responses, i, r)
    /\ answered' = store_response(answered, i, Offset(k) + i)
    /\ reordered' = (reordered \/ \E h \in 1..(i - 1) : Offset(k) + h \in inflight)
    /\ UNCHANGED stream_vars
    /\ UNCHANGED <<model, batch_size, memory, pc, prompt, documents, options,
                   filtered_documents, batches, k, tasks, j, results, ret,
                   issued, processed, mem0>>

\* Mutant of on_request_error: gather(..., return_exceptions=True) keeps the
\* exception among the responses and the query goes on.
on_request_error_swallowed(cause) ==
    UNCHANGED <<pc, ret, batch_responses, j, results, memory, processed>>

\* gather hands the query the first exception of a request: line 242 wraps it.
\* The other requests of the batch are not cancelled.
on_request_error(cause) ==
    /\ pc' = "failed"
    /\ ret' = QueryFailed(cause)
    /\ UNCHANGED <<batch_responses, j, results, memory, processed>>

Fail(i, cause) ==
    /\ pc = "gather"
    /\ Offset(k) + i \in inflight
    /\ inflight' = inflight \ {Offset(k) + i}
    /\ on_request_error(cause)
    /\ UNCHANGED <<reordered, answered, stream_vars>>
    /\ UNCHANGED <<model, batch_size, prompt, documents, options,
                   filtered_documents, batches, k, tasks, issued, mem0>>

\* Mutant of gather_done: the wait ends with the first completed request.
gather_first_completed == Cardinality(inflight) < Len(tasks)

\* Line 194: gather returns once every request of the batch has completed.
gather_done == inflight = {}

GatherReturns ==
    /\ pc = "gather"
    /\ gather_done
    /\ pc' = "process"
    /\ j' = 1
    /\ UNCHANGED <<reordered, answered, stream_vars>>
    /\ UNCHANGED <<model, batch_size, memory, prompt, documents, options,
                   filtered_documents, batches, k, tasks, inflight,
                   batch_responses, results, ret, issued, processed, mem0>>

\* Lines 197-238: one pass of the loop over zip(batch, batch_responses).
ProcessResponse ==
    /\ pc = "process"
    /\ j <= Len(batches[k])
    /\ LET step == process_response(model, batches[k][j], batch_responses[j],
                                    prompt)
       IN /\ processed' = Append(processed, Offset(k) + j)
          /\ memory' = memory \o step.messages
          /\ IF step.raised # "None"
             THEN /\ pc' = "failed"
                  /\ ret' = QueryFailed(step.raised)
                  /\ UNCHANGED <<results, j>>
             ELSE /\ results' = results \o step.results
                  /\ j' = j + 1
                  /\ UNCHANGED <<pc, ret>>
    /\ UNCHANGED <<reordered, answered, stream_vars>>
    /\ UNCHANGED <<model, batch_size, prompt, documents, options,
                   filtered_documents, batches, k, tasks, inflight,
                   batch_responses, issued, mem0>>

\* Lines 177 and 240: the next batch, or return results.
NextBatch ==
    /\ pc = "process"
    /\ j > Len(batches[k])
    /\ IF k < Len(batches)
       THEN /\ k' = k + 1
            /\ pc' = "issue"
            /\ UNCHANGED ret
       ELSE /\ pc' = "returned"
            /\ ret' = ReturnList(results)
            /\ UNCHANGED k
    /\ UNCHANGED <<reordered, answered, stream_vars>>
    /\ UNCHANGED <<model, batch_size, memory, prompt, documents, options,
                   filtered_documents, batches, tasks, inflight,
                   batch_responses, j, results, issued, processed, mem0>>

\* A request left running by a failed query completes; nobody awaits it.
CompleteLate(i) ==
    /\ pc = "failed"
    /\ i \in inflight
    /\ inflight' = inflight \ {i}
    /\ UNCHANGED <<reordered, answered, stream_vars>>
    /\ UNCHANGED <<model, batch_size, memory, pc, prompt, documents, options,
                   filtered_documents, batches, k, tasks, batch_responses, j,
                   results, ret, issued, processed, mem0>>

\* The caller has the list or the exception; the coroutine and its locals are
\* gone, the client and its Memory stay.
Finish ==
    /\ pc \in {"returned", "failed"}
    /\ pc' = "idle"
    /\ prompt' = ""
    /\ documents' = <<>>
    /\ options' = NoOptions
    /\ filtered_documents' = <<>>
    /\ batches' = <<>>
    /\ k' = 0
    /\ tasks' = <<>>
    /\ inflight' = {}
    /\ batch_responses' = <<>>
    /\ j' = 0
    /\ results' = <<>>
    /\ ret' = NoResult
    /\ issued' = <<>>
    /\ processed' = <<>>
    /\ mem0' = <<>>
    /\ reordered' = FALSE
    /\ answered' = <<>>
    /\ UNCHANGED stream_vars
    /\ UNCHANGED <<model, batch_size, memory>>

\* Memory.clear(), between two queries.
Clear ==
    /\ pc = "idle"
    /\ memory # <<>>
    /\ memory' = clear
    /\ UNCHANGED <<reordered, answered, stream_vars>>
    /\ UNCHANGED <<model, batch_size, pc, prompt, documents, options,
                   filtered_documents, batches, k, tasks, inflight,
                   batch_responses, j, results, ret, issued, processed, mem0>>

Causes == {"ConnectionError"}

Next ==
    \/ \E docs \in SeqsUpTo(QueryCorpus, MaxDocs), opts \in OptionsMenu :
          Query(Prompt, docs, opts)
    \/ IssueBatch
    \/ \E i \in 1..MaxBatch, r \in Responses(model) : Complete(i, r)
    \/ \E i \in 1..MaxBatch, cause \in Causes : Fail(i, cause)
    \/ GatherReturns
    \/ ProcessResponse
    \/ NextBatch
    \/ \E i \in 1..MaxDocs : CompleteLate(i)
    \/ Finish
    \/ Clear

Spec == Init /\ [][Next]_vars

----------------------------------------------------------------------------
(* The filter alone: Init draws the documents and the filters, ApplyFilter *)
(* is one call of _filter_documents_by_metadata.                           *)

FilterInit ==
    /\ model = "gpt-4o-mini"
    /\ batch_size = 1
    /\ memory = <<>>
    /\ pc = "idle"
    /\ prompt = ""
    /\ documents \in SeqsUpTo(FilterCorpus, MaxFilterDocs)
    /\ options \in {Options("list", fs) : fs \in SeqsUpTo(FilterPool, MaxFilters)}
    /\ filtered_documents = <<>>
    /\ batches = <<>>
    /\ k = 0
    /\ tasks = <<>>
    /\ inflight = {}
    /\ batch_responses = <<>>
    /\ j = 0
    /\ results = <<>>
    /\ ret = NoResult
    /\ issued = <<>>
    /\ processed = <<>>
    /\ mem0 = <<>>
    /\ reordered = FALSE
    /\ answered = <<>>
    /\ response_stream = <<>>
    /\ full_response = <<>>
    /\ yielded = <<>>

\* One call of _filter_documents_by_metadata(documents, filters): it returns
\* a list, or the TypeError of a comparison escapes it.
ApplyFilter ==
    /\ pc = "idle"
    /\ LET out == filter_documents_by_metadata(documents, options.value)
       IN /\ filtered_documents' = out.docs
          /\ ret' = IF out.raised # "None"
                    THEN [kind |-> "raise", value |-> <<>>, error |-> out.raised]
                    ELSE ReturnList(out.docs)
    /\ pc' = "filtered"
    /\ UNCHANGED <<reordered, answered, stream_vars>>
    /\ UNCHANGED <<model, batch_size, memory, prompt, documents, options,
                   batches, k, tasks, inflight, batch_responses, j, results,
                   issued, processed, mem0>>

FilterNext == ApplyFilter

FilterSpec == FilterInit /\ [][FilterNext]_vars

----------------------------------------------------------------------------
(* The streaming query.  Text that is concatenated (the content of a chunk, *)
(* full_response) is a sequence of character codes.                         *)

MaxChunks == 2

\* A chunk of the completion stream: chunk.choices[0].delta.content is None
\* or a string.
Chunk(none, content) == [none |-> none, content |-> content]

NoneChunk == Chunk(TRUE, <<>>)

Chunks == {NoneChunk, Chunk(FALSE, <<1>>), Chunk(FALSE, <<2>>)}

\* Line 278: chunk.choices[0].delta.content or "".
chunk_content(chunk) == IF chunk.none \/ chunk.content = <<>> THEN <<>> ELSE chunk.content

\* Lines 36-40.
StreamingQueryResult(content) == [content |-> content]

\* Lines 265-274: the one request of a streaming query.
StreamRequest(document, history, p) ==
    [document |-> document,
     messages |-> <<SystemMessage(document)>> \o get_history(history)
                  \o <<UserMessage(p)>>]

\* Lines 282-283.
record_exchange(history, p, text) ==
    add_message(add_message(history, UserMessage(p)), AssistantMessage(text))

\* What the consumer of the generator receives instead of a chunk.
StreamRaised(exc) == [kind |-> "raise", value |-> <<>>, error |-> exc]
StopAsyncIteration == [kind |-> "stop", value |-> <<>>, error |-> "None"]

StreamInit ==
    /\ model \in Models
    /\ batch_size = 1
    /\ memory = <<>>
    /\ pc = "idle"
    /\ prompt = ""
    /\ documents = <<>>
    /\ options = NoOptions
    /\ filtered_documents = <<>>
    /\ batches = <<>>
    /\ k = 0
    /\ tasks = <<>>
    /\ inflight = {}
    /\ batch_responses = <<>>
    /\ j = 0
    /\ results = <<>>
    /\ ret = NoResult
    /\ issued = <<>>
    /\ processed = <<>>
    /\ mem0 = <<>>
    /\ reordered = FALSE
    /\ answered = <<>>
    /\ response_stream = <<>>
    /\ full_response = <<>>
    /\ yielded = <<>>

batch_vars == <<batches, k, tasks, inflight, batch_responses, j, results,
                processed, reordered, answered>>

\* Lines 143-144: query(prompt, documents, options, stream=True) returns the
\* async generator; none of its body has run.
StreamQuery(p, docs, opts) ==
    /\ pc = "idle"
    /\ Len(memory) <= MaxHistory
    /\ prompt' = p
    /\ documents' = docs
    /\ options' = opts
    /\ mem0' = memory
    /\ pc' = "created"
    /\ UNCHANGED <<model, batch_size, memory, filtered_documents, ret, issued,
                   batch_vars, stream_vars>>

\* Lines 248-276: the consumer asks for the first chunk.  The body runs to the
\* completion request; nothing here is inside a try.
StreamStart ==
    /\ pc = "created"
    /\ LET out == filter_documents_by_metadata(documents, convert_filters(options))
       IN IF out.raised # "None"
          THEN /\ pc' = "failed"
               /\ ret' = StreamRaised(out.raised)
               /\ UNCHANGED <<filtered_documents, issued>>
          ELSE /\ filtered_documents' = out.docs
               /\ IF out.docs = <<>>
                  THEN /\ pc' = "failed"
                       /\ ret' = StreamRaised("IndexError")
                       /\ UNCHANGED issued
                  ELSE /\ issued' = Append(issued,
                                       StreamRequest(out.docs[1], memory, prompt))
                       /\ pc' = "streaming"
                       /\ UNCHANGED ret
    /\ UNCHANGED <<model, batch_size, memory, prompt, documents, options, mem0,
                   batch_vars, stream_vars>>

\* Lines 277-280: the stream delivers a chunk and the generator yields its
\* content; the body is suspended at the yield.
NextChunk(chunk) ==
    /\ pc = "streaming"
    /\ Len(response_stream) < MaxChunks
    /\ response_stream' = Append(response_stream, chunk)
    /\ full_response' = full_response \o chunk_content(chunk)
    /\ yielded' = Append(yielded, StreamingQueryResult(chunk_content(chunk)))
    /\ pc' = "yielded"
    /\ UNCHANGED <<model, batch_size, memory, prompt, documents, options,
                   filtered_documents, ret, issued, mem0, batch_vars>>

\* The consumer asks for the next chunk: the body resumes after the yield.
Resume ==
    /\ pc = "yielded"
    /\ pc' = "streaming"
    /\ UNCHANGED <<model, batch_size, memory, prompt, documents, options,
                   filtered_documents, ret, issued, mem0, batch_vars,
                   stream_vars>>

\* Lines 277 and 282-283: the stream is exhausted, the loop ends, the exchange
\* is remembered and the generator returns.
Exhausted ==
    /\ pc = "streaming"
    /\ memory' = record_exchange(memory, prompt, full_response)
    /\ pc' = "exhausted"
    /\ ret' = StopAsyncIteration
    /\ UNCHANGED <<model, batch_size, prompt, documents, options,
                   filtered_documents, issued, mem0, batch_vars, stream_vars>>

\* Lines 269-277: acompletion, or the iteration of the stream, raises; the
\* exception reaches the consumer as it is.
StreamError(cause) ==
    /\ pc = "streaming"
    /\ pc' = "failed"
    /\ ret' = StreamRaised(cause)
    /\ UNCHANGED <<model, batch_size, memory, prompt, documents, options,
                   filtered_documents, issued, mem0, batch_vars, stream_vars>>

\* The consumer stops iterating: the generator is closed (or dropped) where it
\* is suspended, before its first step or at a yield.
Close ==
    /\ pc \in {"created", "yielded"}
    /\ pc' = "closed"
    /\ UNCHANGED <<model, batch_size, memory, prompt, documents, options,
                   filtered_documents, ret, issued, mem0, batch_vars,
                   stream_vars>>

StreamOver == {"exhausted", "failed", "closed"}

\* The generator is gone; the client and its Memory stay.
StreamFinish ==
    /\ pc \in StreamOver
    /\ pc' = "idle"
    /\ prompt' = ""
    /\ documents' = <<>>
    /\ options' = NoOptions
    /\ filtered_documents' = <<>>
    /\ ret' = NoResult
    /\ issued' = <<>>
    /\ mem0' = <<>>
    /\ response_stream' = <<>>
    /\ full_response' = <<>>
    /\ yielded' = <<>>
    /\ UNCHANGED <<model, batch_size, memory, batch_vars>>

StreamNext ==
    \/ \E docs \in SeqsUpTo(QueryCorpus, MaxDocs), opts \in OptionsMenu :
          StreamQuery(Prompt, docs, opts)
    \/ StreamStart
    \/ \E chunk \in Chunks : NextChunk(chunk)
    \/ Resume
    \/ Exhausted
    \/ \E cause \in Causes : StreamError(cause)
    \/ Close
    \/ StreamFinish

StreamSpec == StreamInit /\ [][StreamNext]_vars

----------------------------------------------------------------------------
(* The filter semantics of the specification (section 4.1): when a         *)
(* document satisfies a filter. A document without the key satisfies no    *)
(* filter; a comparison between a string and an integer is not satisfied.  *)

HasKey(doc, f) == ~doc.is_none /\ f.key \in DOMAIN doc.metadata

Satisfies(doc, f) ==
    /\ HasKey(doc, f)
    /\ LET val == doc.metadata[f.key]
           both_str == val.t = "str" /\ f.value.t = "str"
           both_int == val.t = "int" /\ f.value.t = "int"
           same == (both_str /\ val.s = f.value.s) \/ (both_int /\ val.n = f.value.n)
           below == (both_str /\ LexLess(val.s, f.value.s))
                    \/ (both_int /\ val.n < f.value.n)
           above == (both_str /\ LexLess(f.value.s, val.s))
                    \/ (both_int /\ val.n > f.value.n)
       IN \/ f.operator \in {"equals", "None"} /\ same
          \/ f.operator = "notEquals" /\ ~same
          \/ f.operator = "contains" /\ both_str /\ IsSubstring(f.value.s, val.s)
          \/ f.operator = "startsWith" /\ both_str /\ IsPrefix(f.value.s, val.s)
          \/ f.operator = "endsWith" /\ both_str /\ IsSuffix(f.value.s, val.s)
          \/ f.operator = "regex" /\ both_str /\ RegexMatch(f.value.s, val.s)
          \/ f.operator = "greaterThan" /\ above
          \/ f.operator = "lessThan" /\ below
          \/ f.operator = "greaterThanOrEqual" /\ (above \/ same)
          \/ f.operator = "lessThanOrEqual" /\ (below \/ same)

SatisfiesAll(doc, filters) ==
    \A i \in 1..Len(filters) : Satisfies(doc, filters[i])

\* The documents of docs that satisfy every filter, in the order of docs.
Matching(docs, filters) ==
    IF filters = <<>> THEN docs
    ELSE SelectSeq(docs, LAMBDA d : SatisfiesAll(d, filters))

----------------------------------------------------------------------------
(* Claims about the filter, checked under FilterSpec.                      *)

\* C2: _filter_documents_by_metadata returns, in the original order, exactly
\* the documents that satisfy every filter (a document without metadata or
\* without the key satisfies none, an absent operator means equals, an unknown
\* operator is never satisfied); with no filters it returns all the documents
\* unchanged.
C2_FilterReturnsMatching ==
    pc = "filtered" => ret = ReturnList(Matching(documents, options.value))

\* What holds of the filter: a call that returns returns the matching
\* documents, and a call without filters always returns its documents.
FilterReturnsMatchingIfItReturns ==
    pc = "filtered" =>
        /\ ret.kind = "list" => ret.value = Matching(documents, options.value)
        /\ options.value = <<>> => ret = ReturnList(documents)

\* C3: evaluating the filters never raises, whatever the types of the stored
\* value and of the filter's value.
C3_FilterNeverRaises ==
    pc = "filtered" => ret.kind # "raise"

----------------------------------------------------------------------------
(* Claims about the non-streaming query, checked under Spec.               *)

RECURSIVE Flatten(_)
Flatten(ss) == IF ss = <<>> THEN <<>> ELSE Head(ss) \o Flatten(Tail(ss))

Count(seq, x) == Cardinality({i \in 1..Len(seq) : seq[i] = x})

DocumentsOf(rs) == [i \in 1..Len(rs) |-> rs[i].document]

\* The exchanges of a result list: for each result, the prompt and then the
\* result's content.
RECURSIVE Exchanges(_, _)
Exchanges(rs, p) ==
    IF rs = <<>> THEN <<>>
    ELSE <<UserMessage(p), AssistantMessage(Head(rs).content)>>
         \o Exchanges(Tail(rs), p)

BatchPositions(b) == {Offset(b) + i : i \in 1..Len(batches[b])}

\* C1: the list a non-streaming query returns holds no result whose
\* is_irrelevant is true, whatever the model identifier.
C1_NoIrrelevantResult ==
    ret.kind = "list" =>
        \A i \in 1..Len(ret.value) : ~ret.value[i].is_irrelevant

\* C4: a returned list is no longer than the filtered documents, and each
\* document occurs among the results at most as often as among the filtered
\* documents (so never, when the filter removed it).
C4_ResultsWithinFiltered ==
    ret.kind = "list" =>
        /\ Len(ret.value) <= Len(filtered_documents)
        /\ \A i \in 1..Len(ret.value) :
              Count(DocumentsOf(ret.value), ret.value[i].document)
                  <= Count(filtered_documents, ret.value[i].document)

\* C4 witness: the filter removed a document, and the query returned a result
\* for some but not all of the filtered documents.
C4_Witness ==
    /\ ret.kind = "list"
    /\ Len(filtered_documents) < Len(documents)
    /\ Len(ret.value) > 0
    /\ Len(ret.value) < Len(filtered_documents)

\* C5: while a query runs and when it returns, Memory is the history of the
\* start followed by one pair (user prompt, then assistant content) per
\* result, in the order of the results, and nothing else; the returned list
\* is that result list.
C5_MemoryPairsPerResult ==
    /\ pc \in {"issue", "gather", "process", "returned"} =>
          memory = mem0 \o Exchanges(results, prompt)
    /\ ret.kind = "list" =>
          /\ ret.value = results
          /\ Len(memory) = Len(mem0) + 2 * Len(ret.value)
          /\ ret.value # <<>> =>
                /\ memory[Len(memory) - 1] = UserMessage(prompt)
                /\ \E i \in 1..Len(ret.value) :
                      memory[Len(memory)] = AssistantMessage(ret.value[i].content)

\* C5 witness: a query on a non-empty history returned a result for one
\* response and dropped another.
C5_Witness ==
    /\ ret.kind = "list"
    /\ mem0 # <<>>
    /\ Len(ret.value) > 0
    /\ Len(ret.value) < Len(filtered_documents)
    /\ ~IsOllama(model)

\* C6: batches are strictly sequential: a batch is issued only when no
\* request is in flight, every request in flight belongs to the current
\* batch, whose requests have all been issued, responses are processed only
\* when none is in flight, and at most batch_size requests are in flight.
C6_BatchesSequential ==
    /\ Cardinality(inflight) <= batch_size
    /\ pc = "issue" => inflight = {}
    /\ pc \in {"gather", "process"} =>
          /\ inflight \subseteq BatchPositions(k)
          /\ Len(issued) = Offset(k) + Len(batches[k])
          /\ \A i \in 1..Len(issued) : issued[i].batch <= k
    /\ pc = "process" => inflight = {}
    /\ \A i \in 1..Len(processed) : processed[i] <= Len(issued)

\* C6 witness: the second batch is in flight with batch_size requests.
C6_Witness ==
    /\ pc = "gather"
    /\ k = 2
    /\ Cardinality(inflight) = batch_size

\* C7: a request that fails in batch k (it leaves the requests in flight
\* without a response) makes the query raise "Query failed: <cause>"; in the
\* failed query no response of batch k has been processed, no request of a
\* later batch has been issued, and the caller gets the exception and no list.
C7_FailedByTransport == pc = "failed" /\ ret.error \in Causes

C7_TransportFailureAborts ==
    [][/\ (pc = "gather" /\ inflight' # inflight
              /\ batch_responses' = batch_responses) =>
             /\ pc' = "failed"
             /\ \E cause \in Causes : ret' = QueryFailed(cause)
             /\ issued' = issued /\ processed' = processed
       /\ C7_FailedByTransport' =>
             /\ ret'.kind = "raise" /\ ret'.value = <<>>
             /\ \A i \in 1..Len(processed') : processed'[i] <= Offset(k')
             /\ Len(issued') = Offset(k') + Len(batches'[k'])
             /\ \A i \in 1..Len(issued') : issued'[i].batch <= k'
      ]_vars

\* C7 witness: a request of the second batch failed after the first batch
\* had produced a result.
C7_Witness ==
    /\ C7_FailedByTransport
    /\ k = 2
    /\ results # <<>>
    /\ Len(batches) > k

\* C8: for a non-reasoning model, processing a well-formed JSON response
\* never fails the query, whichever fields it lacks.
FailedAtResponse ==
    /\ pc = "failed"
    /\ processed # <<>>
    /\ processed[Len(processed)] = Offset(k) + j

C8_MissingFieldsDefaulted ==
    ~(FailedAtResponse /\ ~IsOllama(model) /\ batch_responses[j].kind = "json")

\* C9: for a non-reasoning model, a response that is not well-formed JSON is
\* skipped without aborting: the pass of the loop that takes it leaves results
\* and Memory as they are and goes on to the next response, and it does what
\* the pass for an irrelevant response does, so the query goes on and ends as
\* it would with an irrelevant response in that place.
C9_MalformedSkipped ==
    [][(/\ pc = "process"
        /\ j <= Len(batches[k])
        /\ ~IsOllama(model)
        /\ batch_responses[j].kind = "text"
        /\ processed' # processed) =>
           /\ results' = results
           /\ memory' = memory
           /\ pc' = "process"
           /\ j' = j + 1
           /\ ret' = ret
           /\ process_response(model, batches[k][j], batch_responses[j], prompt)
                = process_response(model, batches[k][j], JsonIrrelevant, prompt)
      ]_vars

\* C9 witness: the query returned a result for the response that followed a
\* malformed one in the same batch.
C9_Witness ==
    /\ ret.kind = "list"
    /\ ~IsOllama(model)
    /\ Len(batch_responses) = 2
    /\ batch_responses[1].kind = "text"
    /\ batch_responses[2] = JsonRelevant
    /\ ret.value # <<>>
    /\ ret.value[Len(ret.value)].document = batches[k][2]

\* The batches are consecutive slices of the filtered documents: their
\* concatenation is the filtered list, none is empty or longer than
\* batch_size, all but the last have batch_size documents.
BatchesPartition ==
    /\ Flatten(batches) = filtered_documents
    /\ \A b \in 1..Len(batches) :
          /\ Len(batches[b]) >= 1
          /\ Len(batches[b]) <= batch_size
          /\ b < Len(batches) => Len(batches[b]) = batch_size

\* Requests are issued for the filtered documents in order, at most one
\* each, and none for a document the filter removed.
RequestsFollowFiltered ==
    /\ Len(issued) <= Len(filtered_documents)
    /\ DocumentsOf(issued) = SubSeq(filtered_documents, 1, Len(issued))
    /\ options.filter \in {"list", "dict"} =>
          \A i \in 1..Len(issued) :
              SatisfiesAll(issued[i].document, options.value)

\* C10 as stated: the batches partition the filtered documents, and a query
\* that is over, however it ended, has issued exactly one request per
\* filtered document and none for a document the filter removed.
C10_OneRequestPerFilteredDocument ==
    /\ BatchesPartition
    /\ RequestsFollowFiltered
    /\ pc \in {"returned", "failed"} => Len(issued) = Len(filtered_documents)

\* C10 as amended: the batches partition the filtered documents; a query
\* that returns has issued exactly one request per filtered document; a
\* query that raises has issued one request for each document of the batches
\* it started and none for the later ones; no request is issued for a
\* document the filter removed.
C10_BatchesPartitionFiltered ==
    /\ BatchesPartition
    /\ RequestsFollowFiltered
    /\ ret.kind = "list" => Len(issued) = Len(filtered_documents)
    /\ (pc = "failed" /\ k >= 1) =>
          Len(issued) = Offset(k) + Len(batches[k])

\* C10 witness: a returned query whose last batch is shorter than the first,
\* with a request for every filtered document.
C10_Witness ==
    /\ ret.kind = "list"
    /\ Len(batches) = 2
    /\ Len(batches[1]) = batch_size
    /\ Len(batches[2]) < batch_size
    /\ DocumentsOf(issued) = filtered_documents

----------------------------------------------------------------------------
(* The streaming query (StreamSpec).                                       *)

ContentsOf(ys) == [i \in 1..Len(ys) |-> ys[i].content]

\* The text of the chunks the completion stream has delivered.
TextOf(cs) == Flatten([i \in 1..Len(cs) |-> chunk_content(cs[i])])

StreamMessages(document) ==
    <<SystemMessage(document)>> \o mem0 \o <<UserMessage(prompt)>>

\* The exchange of the streaming query, as Memory is to hold it.
StreamExchange == <<UserMessage(prompt), AssistantMessage(TextOf(response_stream))>>

\* The chunks yielded so far carry the text received so far, and Memory holds
\* the exchange once the stream is exhausted and is untouched otherwise.
StreamTextAndMemory ==
    /\ Flatten(ContentsOf(yielded)) = TextOf(response_stream)
    /\ Len(yielded) = Len(response_stream)
    /\ memory = IF pc = "exhausted" THEN mem0 \o StreamExchange ELSE mem0

\* C11 as stated: every streaming query, however it ends, has issued exactly
\* one completion request, built from the first filtered document; the chunks
\* yielded concatenate to the response text; Memory gains the pair (user
\* prompt, assistant full text) only at exhaustion of the stream.
C11_StreamIssuesExactlyOne ==
    pc \in StreamOver =>
        /\ Len(issued) = 1
        /\ issued[1] = [document |-> filtered_documents[1],
                        messages |-> StreamMessages(filtered_documents[1])]
        /\ StreamTextAndMemory

\* What does hold of every streaming query: no request before the consumer
\* asks for the first chunk; that first step issues exactly one request, built
\* from the first filtered document, unless the filter raises or the filtered
\* list is empty, and then it raises and issues none; never a second request.
\* The chunks yielded concatenate to the text received, and Memory gains the
\* pair at exhaustion of the stream and in no other case.
StreamIssuesAtMostOne ==
    pc \notin {"idle"} =>
        /\ Len(issued) <= 1
        /\ pc = "created" => issued = <<>>
        /\ pc \in {"streaming", "yielded", "exhausted"} => Len(issued) = 1
        /\ pc = "closed" => (issued = <<>> <=> yielded = <<>>)
        /\ pc = "failed" =>
              (issued = <<>> <=> ret.error \in {"TypeError", "IndexError"})
        /\ pc = "failed" /\ ret.error = "IndexError" => filtered_documents = <<>>
        /\ issued # <<>> =>
              issued[1] = [document |-> filtered_documents[1],
                           messages |-> StreamMessages(filtered_documents[1])]
        /\ StreamTextAndMemory

----------------------------------------------------------------------------
(* The filter option (Spec and StreamSpec).                                *)

\* The query has been through its call of _filter_documents_by_metadata.
FilterRan == pc \notin {"idle", "created"} /\ ~(pc = "closed" /\ yielded = <<>>)

\* C12: a single filter passed as options["filter"], as a mapping or as a
\* MetadataFilter object, prunes the documents exactly as the one-element list
\* holding that filter does, in the non-streaming and in the streaming path.
C12_SingleFilterAsList ==
    FilterRan /\ options.filter \in {"dict", "object"} =>
        LET out == filter_documents_by_metadata(documents, <<options.value[1]>>)
        IN IF out.raised # "None"
           THEN pc = "failed" /\ ret.error = out.raised
           ELSE filtered_documents = out.docs

\* What does hold: the mapping prunes as the one-element list does.
SingleMappingAsList ==
    FilterRan /\ options.filter = "dict" =>
        LET out == filter_documents_by_metadata(documents, <<options.value[1]>>)
        IN IF out.raised # "None"
           THEN pc = "failed" /\ ret.error = out.raised
           ELSE filtered_documents = out.docs

----------------------------------------------------------------------------
(* The order of completion and the history of the requests (Spec).         *)

RECURSIVE IsSubsequence(_, _)
IsSubsequence(a, b) ==
    IF a = <<>> THEN TRUE
    ELSE IF b = <<>> THEN FALSE
    ELSE IF Head(a) = Head(b) THEN IsSubsequence(Tail(a), Tail(b))
    ELSE IsSubsequence(a, Tail(b))

\* The results of the first n documents of the current batch, each with the
\* response that stands at its position, taken in the order of the documents.
RECURSIVE BatchResults(_)
BatchResults(n) ==
    IF n = 0 THEN <<>>
    ELSE BatchResults(n - 1)
         \o process_response(model, batches[k][n], batch_responses[n],
                             prompt).results

\* C13: the outcome of a non-streaming query does not depend on the order in
\* which the requests of a batch complete.  The response at each position of
\* the batch is the one of the request at that position; the response loop
\* takes the positions in the order of the filtered list; the results are
\* those of the documents with their own responses, in the order of the
\* filtered list (a subsequence of it); Memory holds the pairs in the order of
\* the results, so its last pair is that of the last retained document.
C13_CompletionOrderIrrelevant ==
    /\ processed = [i \in 1..Len(processed) |-> i]
    /\ pc \in {"gather", "process", "returned", "failed"} =>
          \A h \in 1..Len(answered) : answered[h] \in {0, Offset(k) + h}
    /\ pc \in {"process", "returned"} /\ k > 0 =>
          /\ IsSuffix(BatchResults(j - 1), results)
          /\ IsSuffix(Exchanges(BatchResults(j - 1), prompt), memory)
    /\ pc \in {"issue", "gather", "process", "returned"} =>
          /\ IsSubsequence(DocumentsOf(results),
                           SubSeq(filtered_documents, 1, Len(processed)))
          /\ memory = mem0 \o Exchanges(results, prompt)
    /\ ret.kind = "list" /\ ret.value # <<>> =>
          /\ ret.value = results
          /\ memory[Len(memory)]
                = AssistantMessage(results[Len(results)].content)

\* C13 witness: the second request of a batch of two completed before the
\* first, both documents were retained, and the query returned.
C13_Witness ==
    /\ ret.kind = "list"
    /\ reordered
    /\ Len(batches) = 1
    /\ Len(results) = 2
    /\ results[1].document # results[2].document
    /\ results[1].content # results[2].content
    /\ DocumentsOf(results) = filtered_documents

\* The history a request carries: its messages without the system message
\* and the user prompt.
HistoryOf(rq) == SubSeq(rq.messages, 2, Len(rq.messages) - 1)

\* C14: every request carries the system message of its document, then a
\* history H, then the user prompt.  H is Memory as it stood when the
\* requests of the batch were created: the requests of one batch carry the
\* same H, those of the first batch the history of the start of the query,
\* and those of a later batch that history followed by every pair appended
\* while the earlier batches were processed (one pair per result so far).
C14_RequestsCarryBatchHistory ==
    \A i \in 1..Len(issued) :
        LET rq == issued[i]
            H == HistoryOf(rq)
        IN /\ Len(rq.messages) >= 2
           /\ rq.messages = <<SystemMessage(filtered_documents[i])>> \o H
                            \o <<UserMessage(prompt)>>
           /\ rq.batch = 1 => H = mem0
           /\ \A h \in 1..Len(issued) :
                 /\ issued[h].batch = rq.batch => HistoryOf(issued[h]) = H
                 /\ issued[h].batch > rq.batch =>
                       IsPrefix(H, HistoryOf(issued[h]))
           /\ rq.batch = k /\ pc = "gather" =>
                 /\ H = memory
                 /\ H = mem0 \o Exchanges(results, prompt)

\* C14 witness: the two requests of the first batch carried the history of
\* the start, both documents were retained, and the request of the second
\* batch carries that history and the two pairs.
C14_Witness ==
    /\ pc = "gather"
    /\ k = 2
    /\ Len(issued) = 3
    /\ issued[2].batch = 1
    /\ mem0 # <<>>
    /\ HistoryOf(issued[1]) = mem0
    /\ HistoryOf(issued[2]) = mem0
    /\ Len(results) = 2
    /\ HistoryOf(issued[3]) = mem0 \o Exchanges(results, prompt)

====
